---- MODULE Spec2Model ----
(***************************************************************************)
(* The ReAct agent of reactlm/core/agent.py: Agent.execute (the reasoning  *)
(* loop), Agent.add_tool / Agent.remove_tool (the tool registry) and       *)
(* Agent._store_trace (the trace recorder).                                *)
(*                                                                         *)
(* execute is a coroutine.  It gives up control only at its awaits: the    *)
(* model call, the tool call and the memory.store call of _store_trace.    *)
(* Every action below is the code between two awaits, so other coroutines  *)
(* (a second execute, add_tool, remove_tool) interleave exactly where the  *)
(* event loop lets them.                                                   *)
(***************************************************************************)
EXTENDS Integers, Sequences, FiniteSets, TLC

\* Largest max_iterations the configurations range over.
MaxIter == 3

\* The execute calls made on the agent, numbered in the order they start.
Calls == {1, 2}

\* ------------------------------------------------------------------------
\* Values

\* Python's None, and a local variable that was never assigned.
Null == [type |-> "None"]
Unbound == [type |-> "unbound"]

\* core/types.py
AgentState == {"idle", "thinking", "executing", "waiting", "error", "completed"}
InputType == {"text", "image", "audio", "video", "binary"}
OutputType == {"text", "image", "audio", "video", "binary", "json"}

\* A dict with no entry.
EmptyDict == [k \in {} |-> ""]

\* core/base.py: the envelopes.
BaseInput(type, content) == [type |-> type, content |-> content, metadata |-> EmptyDict]
BaseOutput(type, content, metadata) == [type |-> type, content |-> content, metadata |-> metadata]

\* The tools that exist: two share the name "echo", so that a duplicate add
\* is an add of a different tool under a registered name.
ToolNames == {"echo", "wiki"}
ToolObjs == {[name |-> "echo", version |-> "1.0.0"],
             [name |-> "echo", version |-> "2.0.0"],
             [name |-> "wiki", version |-> "1.0.0"]}

\* The registries the agent can be constructed with: name -> tool.
Registries == {EmptyDict,
               ("echo" :> [name |-> "echo", version |-> "1.0.0"])
                  @@ ("wiki" :> [name |-> "wiki", version |-> "1.0.0"])}

\* What the model can answer: a final answer, a tool request with and
\* without "input", both keys at once, a map with neither key, plain text.
LLMMetadata == ("model" :> "gpt")
LLMOutputs ==
    {BaseOutput("json", ("final_answer" :> "ok"), LLMMetadata),
     BaseOutput("json", ("tool" :> "echo") @@ ("input" :> "X"), LLMMetadata),
     BaseOutput("json", ("tool" :> "wiki"), EmptyDict),
     BaseOutput("json", ("final_answer" :> "both") @@ ("tool" :> "wiki"), EmptyDict),
     BaseOutput("json", EmptyDict, EmptyDict),
     BaseOutput("text", "thought", EmptyDict)}

\* What a tool can return.
ToolOutputs == {BaseOutput("text", c, EmptyDict) : c \in {"r1", "r2"}}

\* What a collaborator can raise.
Exceptions == {"TimeoutError", "RuntimeError"}

\* The arguments of execute: input_data (a str is written [str |-> ...])
\* and context.
ExecuteArgs == {<<[str |-> "q"], Null>>,
                <<BaseInput("image", "img"), ("user" :> "u")>>}

SessionIds == {"sid"}

\* ------------------------------------------------------------------------
\* State

VARIABLES
    config,        \* AgentConfig: max_iterations, trace_enabled
    tools,         \* Agent.tools: name -> tool
    memory,        \* Agent.memory: attached or not, and what was stored
    state,         \* Agent.state
    _session_id,   \* Agent._session_id
    _iteration,    \* Agent._iteration
    _traces,       \* Agent._traces
    call,          \* per execute call: where it is and its local variables
    hist,          \* per execute call: what it did so far (history only)
    lastOp,        \* the outcome of the last add_tool / remove_tool
    twin           \* a second agent, configured with trace_enabled = False
                   \* and given the same inputs (Null where none is run)

vars == <<config, tools, memory, state, _session_id, _iteration, _traces,
          call, hist, lastOp, twin>>

\* The local variables of one execute call, before it starts.
NewCall ==
    [pc |-> "idle", input_data |-> Null, context |-> EmptyDict,
     action |-> Unbound, final_answer |-> Null,
     tool_name |-> "", tool_input |-> "", tool |-> Null, tool_result |-> Null,
     pending |-> <<>>,
     result |-> Null, raised |-> ""]

\* The history of one execute call, before it starts.
NewHist ==
    [llm_calls |-> 0, tool_calls |-> 0, traced |-> 0, first |-> Null,
     last |-> Null, plain |-> TRUE, thrown |-> "", failed |-> "",
     catalog |-> {}, sids |-> {},
     llm_done |-> 0, tool_done |-> 0, last_tool |-> <<>>,
     supplied |-> EmptyDict]

InitAgent ==
    /\ config \in [max_iterations : {-1} \cup (0 .. MaxIter),
                   trace_enabled : BOOLEAN]
    /\ tools \in Registries
    /\ memory \in [attached : BOOLEAN, data : {EmptyDict}]
    /\ state = "idle"
    /\ _session_id \in SessionIds
    /\ _iteration = 0
    /\ _traces = <<>>
    /\ call = [p \in Calls |-> NewCall]
    /\ hist = [p \in Calls |-> NewHist]
    /\ lastOp = [op |-> "none", arg |-> Null, raised |-> ""]

Init ==
    /\ InitAgent
    /\ twin = Null

\* ------------------------------------------------------------------------
\* Agent.execute, cut at its awaits.  A segment takes the agent's fields and
\* the call's local variables as they are when the coroutine resumes, and
\* gives them as they are when it next awaits, returns or raises.

\* What execute call p sees when it resumes.
Resume(p) ==
    [ag |-> [config |-> config, state |-> state, _iteration |-> _iteration,
             _traces |-> _traces],
     c |-> call[p], h |-> hist[p]]

\* What execute call p leaves behind when it awaits, returns or raises.
Suspend(p, m) ==
    /\ state' = m.ag.state
    /\ _iteration' = m.ag._iteration
    /\ _traces' = m.ag._traces
    /\ call' = [call EXCEPT ![p] = m.c]
    /\ hist' = [hist EXCEPT ![p] = m.h]

\* except_handler that leaves the error of a failed tool call in the context.
except_handler_error_in_context(m, e) ==
    [m EXCEPT !.ag.state = "error", !.c.pc = "raised", !.c.raised = e,
              !.c.context = IF m.c.pc = "tool"
                            THEN ("last_tool_result" :> e) @@ @ ELSE @]

\* except_handler that raises a generic error in place of e.
except_handler_wrap(m, e) ==
    [m EXCEPT !.ag.state = "error", !.c.pc = "raised",
              !.c.raised = "RuntimeError: Agent execution failed"]

\* except Exception as e: self.state = ERROR; raise e
except_handler(m, e) ==
    [m EXCEPT !.ag.state = "error", !.c.pc = "raised", !.c.raised = e]

\* after_loop without the fallback on the last action.
after_loop_no_fallback(m) ==
    IF m.c.final_answer = Null
    THEN except_handler([m EXCEPT !.ag.state = "error"],
                        "RuntimeError: Max iterations reached")
    ELSE [m EXCEPT !.ag.state = "completed",
                   !.c.pc = "returned",
                   !.c.result = m.c.final_answer]

\* After the loop: fall back on the last action, or fail.
after_loop(m) ==
    IF m.c.final_answer = Null /\ m.c.action = Unbound
    THEN \* "action is not None" reads a local that was never assigned
         except_handler(m, "UnboundLocalError")
    ELSE LET fa == IF m.c.final_answer = Null /\ m.c.action # Null
                   THEN m.c.action
                   ELSE m.c.final_answer
         IN  IF fa = Null
             THEN except_handler([m EXCEPT !.ag.state = "error"],
                                 "RuntimeError: Max iterations reached")
             ELSE [m EXCEPT !.c.final_answer = fa,
                            !.ag.state = "completed",
                            !.c.pc = "returned",
                            !.c.result = fa]

\* loop_head that starts the pass without counting it.
loop_head_skip_increment(m) ==
    IF m.ag._iteration < m.ag.config.max_iterations
    THEN [m EXCEPT !.ag.state = "thinking",
                   !.c.pc = "llm",
                   !.h.llm_calls = @ + 1,
                   !.h.catalog = DOMAIN tools]
    ELSE after_loop(m)

\* loop_head with the loop test off by one (<= for <).
loop_head_off_by_one(m) ==
    IF m.ag._iteration <= m.ag.config.max_iterations
    THEN [m EXCEPT !.ag._iteration = @ + 1,
                   !.ag.state = "thinking",
                   !.c.pc = "llm",
                   !.h.llm_calls = @ + 1,
                   !.h.catalog = DOMAIN tools]
    ELSE after_loop(m)

\* The loop test, and the pass up to the model call.
loop_head(m) ==
    IF m.ag._iteration < m.ag.config.max_iterations
    THEN [m EXCEPT !.ag._iteration = @ + 1,
                   !.ag.state = "thinking",
                   !.c.pc = "llm",
                   !.h.llm_calls = @ + 1,
                   !.h.catalog = DOMAIN tools]
    ELSE after_loop(m)

\* The end of a pass: return a final answer, or test the loop again.
loop_tail(m) ==
    IF m.c.final_answer # Null
    THEN [m EXCEPT !.ag.state = "completed",
                   !.c.pc = "returned",
                   !.c.result = m.c.final_answer]
    ELSE loop_head(m)

\* The key a trace is mirrored under: f"trace:{session_id}:{iteration}".
trace_key(sid, iteration) == <<"trace", sid, iteration>>

\* _store_trace that keys the mirror by the trace's position in the log.
_store_trace_key_by_count(m, action, output, at) ==
    LET trace == [session_id |-> _session_id,
                  action |-> action,
                  input |-> m.c.input_data,
                  output |-> output,
                  metadata |-> [iteration |-> m.ag._iteration,
                                state |-> m.ag.state]]
        m1 == [m EXCEPT !.ag._traces = Append(@, trace),
                        !.h.traced = @ + 1,
                        !.h.sids = @ \cup {trace.session_id}]
    IN  IF memory.attached
        THEN [m1 EXCEPT !.c.pc = at,
                        !.c.pending = <<trace_key(_session_id, Len(m1.ag._traces)),
                                        trace>>]
        ELSE m1

\* _store_trace that numbers the passes from 0.
_store_trace_zero_based(m, action, output, at) ==
    LET trace == [session_id |-> _session_id,
                  action |-> action,
                  input |-> m.c.input_data,
                  output |-> output,
                  metadata |-> [iteration |-> m.ag._iteration - 1,
                                state |-> m.ag.state]]
        m1 == [m EXCEPT !.ag._traces = Append(@, trace),
                        !.h.traced = @ + 1,
                        !.h.sids = @ \cup {trace.session_id}]
    IN  IF memory.attached
        THEN [m1 EXCEPT !.c.pc = at,
                        !.c.pending = <<trace_key(_session_id, m.ag._iteration), trace>>]
        ELSE m1

\* _store_trace that puts the new trace at the head of the log.
_store_trace_prepend(m, action, output, at) ==
    LET trace == [session_id |-> _session_id,
                  action |-> action,
                  input |-> m.c.input_data,
                  output |-> output,
                  metadata |-> [iteration |-> m.ag._iteration,
                                state |-> m.ag.state]]
        m1 == [m EXCEPT !.ag._traces = <<trace>> \o @,
                        !.h.traced = @ + 1,
                        !.h.sids = @ \cup {trace.session_id}]
    IN  IF memory.attached
        THEN [m1 EXCEPT !.c.pc = at,
                        !.c.pending = <<trace_key(_session_id, m.ag._iteration), trace>>]
        ELSE m1

\* _store_trace up to its await: build the trace, append it, and call
\* memory.store when a memory is attached (the call then awaits at `at`).
\* The timestamp is left out: the clock is not part of the model.
_store_trace(m, action, output, at) ==
    LET trace == [session_id |-> _session_id,
                  action |-> action,
                  input |-> m.c.input_data,
                  output |-> output,
                  metadata |-> [iteration |-> m.ag._iteration,
                                state |-> m.ag.state]]
        m1 == [m EXCEPT !.ag._traces = Append(@, trace),
                        !.h.traced = @ + 1,
                        !.h.sids = @ \cup {trace.session_id}]
    IN  IF memory.attached
        THEN [m1 EXCEPT !.c.pc = at,
                        !.c.pending = <<trace_key(_session_id, m.ag._iteration), trace>>]
        ELSE m1

\* final_answer_branch without the break: the answer is kept and the loop
\* goes on to its next pass.
final_answer_branch_no_break(m) ==
    LET response_data == m.c.action.content
    IN  loop_head([m EXCEPT !.c.final_answer =
                      BaseOutput("json", response_data["final_answer"],
                                 m.c.action.metadata)])

\* final_answer_branch that does not copy the action's metadata.
final_answer_branch_no_metadata(m) ==
    LET response_data == m.c.action.content
    IN  after_loop([m EXCEPT !.c.final_answer =
                       BaseOutput("json", response_data["final_answer"],
                                  EmptyDict)])

\* The action holds "final_answer": build the answer and break.
final_answer_branch(m) ==
    LET response_data == m.c.action.content
    IN  after_loop([m EXCEPT !.c.final_answer =
                       BaseOutput("json", response_data["final_answer"],
                                  m.c.action.metadata)])

\* tool_branch that passes over a tool it does not find.
tool_branch_skip_missing(m) ==
    LET response_data == m.c.action.content
        tool_name == response_data["tool"]
        tool_input == IF "input" \in DOMAIN response_data
                      THEN response_data["input"] ELSE ""
        m1 == [m EXCEPT !.ag.state = "executing",
                        !.c.tool_name = tool_name,
                        !.c.tool_input = tool_input]
    IN  IF tool_name \in DOMAIN tools
        THEN [m1 EXCEPT !.c.tool = tools[tool_name],
                        !.c.pc = "tool",
                        !.h.tool_calls = @ + 1]
        ELSE loop_tail(m1)

\* tool_branch that falls back on a registered tool when the name is not
\* a key of the registry.
tool_branch_default_tool(m) ==
    LET response_data == m.c.action.content
        tool_name == response_data["tool"]
        tool_input == IF "input" \in DOMAIN response_data
                      THEN response_data["input"] ELSE ""
        m1 == [m EXCEPT !.ag.state = "executing",
                        !.c.tool_name = tool_name,
                        !.c.tool_input = tool_input]
    IN  IF tools # EmptyDict
        THEN [m1 EXCEPT !.c.tool = IF tool_name \in DOMAIN tools
                                   THEN tools[tool_name]
                                   ELSE tools[CHOOSE n \in DOMAIN tools : TRUE],
                        !.c.pc = "tool",
                        !.h.tool_calls = @ + 1]
        ELSE except_handler(m1, "ValueError: Tool not found")

\* tool_branch that starts the tool and goes on without awaiting it.
tool_branch_no_await(m) ==
    LET response_data == m.c.action.content
        tool_name == response_data["tool"]
        tool_input == IF "input" \in DOMAIN response_data
                      THEN response_data["input"] ELSE ""
        m1 == [m EXCEPT !.ag.state = "executing",
                        !.c.tool_name = tool_name,
                        !.c.tool_input = tool_input]
    IN  IF tool_name \in DOMAIN tools
        THEN loop_tail([m1 EXCEPT !.c.tool = tools[tool_name],
                                  !.h.tool_calls = @ + 1])
        ELSE except_handler(m1, "ValueError: Tool not found")

\* tool_branch that leaves the state at Thinking while the tool runs.
tool_branch_stays_thinking(m) ==
    LET response_data == m.c.action.content
        tool_name == response_data["tool"]
        tool_input == IF "input" \in DOMAIN response_data
                      THEN response_data["input"] ELSE ""
        m1 == [m EXCEPT !.c.tool_name = tool_name,
                        !.c.tool_input = tool_input]
    IN  IF tool_name \in DOMAIN tools
        THEN [m1 EXCEPT !.c.tool = tools[tool_name],
                        !.c.pc = "tool",
                        !.h.tool_calls = @ + 1]
        ELSE except_handler(m1, "ValueError: Tool not found")

\* The action holds "tool": look the tool up and call it, or fail.
tool_branch(m) ==
    LET response_data == m.c.action.content
        tool_name == response_data["tool"]
        tool_input == IF "input" \in DOMAIN response_data
                      THEN response_data["input"] ELSE ""
        m1 == [m EXCEPT !.ag.state = "executing",
                        !.c.tool_name = tool_name,
                        !.c.tool_input = tool_input]
    IN  IF tool_name \in DOMAIN tools
        THEN [m1 EXCEPT !.c.tool = tools[tool_name],
                        !.c.pc = "tool",
                        !.h.tool_calls = @ + 1]
        ELSE except_handler(m1, "ValueError: Tool not found")

\* parse_action that fails on an action it cannot use.
parse_action_strict(m) ==
    LET m1 == [m EXCEPT !.h.catalog = {}]
    IN  IF m.c.action.type = "json"
        THEN IF "final_answer" \in DOMAIN m.c.action.content
             THEN final_answer_branch(m1)
             ELSE IF "tool" \in DOMAIN m.c.action.content
                  THEN tool_branch(m1)
                  ELSE except_handler(m1, "ValueError: Invalid action")
        ELSE except_handler(m1, "ValueError: Invalid action")

\* parse_action that looks for "tool" before "final_answer".
parse_action_tool_first(m) ==
    LET m1 == [m EXCEPT !.h.catalog = {}]
    IN  IF m.c.action.type = "json"
        THEN IF "tool" \in DOMAIN m.c.action.content
             THEN tool_branch(m1)
             ELSE IF "final_answer" \in DOMAIN m.c.action.content
                  THEN final_answer_branch(m1)
                  ELSE loop_tail(m1)
        ELSE loop_tail(m1)

\* Parse the model's action: final answer, tool request, or neither.  The
\* catalog the model was shown is history from here on.
parse_action(m) ==
    LET m1 == [m EXCEPT !.h.catalog = {}]
    IN  IF m.c.action.type = "json"
        THEN IF "final_answer" \in DOMAIN m.c.action.content
             THEN final_answer_branch(m1)
             ELSE IF "tool" \in DOMAIN m.c.action.content
                  THEN tool_branch(m1)
                  ELSE loop_tail(m1)
        ELSE loop_tail(m1)

\* update_context that starts a new context holding the result only.
update_context_replace(m) ==
    loop_tail([m EXCEPT !.c.context =
                  ("last_tool_result" :> m.c.tool_result.content)])

\* update_context that keeps a last_tool_result the context already has.
update_context_keep_first(m) ==
    loop_tail([m EXCEPT !.c.context =
                  @ @@ ("last_tool_result" :> m.c.tool_result.content)])

\* context["last_tool_result"] = tool_result.content, and the end of the pass.
update_context(m) ==
    loop_tail([m EXCEPT !.c.context =
                  ("last_tool_result" :> m.c.tool_result.content) @@ @])

\* The model call has returned `response`.
after_llm(m, response) ==
    LET m1 == [m EXCEPT !.c.action = response,
                        !.h.llm_done = @ + 1,
                        !.h.first = IF @ = Null THEN response ELSE @,
                        !.h.last = response,
                        !.h.plain = @ /\ (response.type = "json" =>
                                          DOMAIN response.content \cap
                                             {"final_answer", "tool"} = {})]
    IN  IF m.ag.config.trace_enabled
        THEN LET m2 == _store_trace(m1, <<"llm_generation">>, response, "store_llm")
             IN  IF m2.c.pc = "store_llm" THEN m2 ELSE parse_action(m2)
        ELSE parse_action(m1)

\* after_tool that puts the result in the context only when it traces.
after_tool_context_if_traced(m, tool_result) ==
    LET m1 == [m EXCEPT !.c.tool_result = tool_result,
                        !.c.tool = Null,
                        !.h.tool_done = @ + 1,
                        !.h.last_tool = <<tool_result.content>>]
    IN  IF m.ag.config.trace_enabled
        THEN LET m2 == _store_trace(m1, <<"tool_execution", m.c.tool_name>>,
                                    tool_result, "store_tool")
             IN  IF m2.c.pc = "store_tool" THEN m2 ELSE update_context(m2)
        ELSE loop_tail(m1)

\* after_tool that records no trace of the tool call.
after_tool_no_trace(m, tool_result) ==
    update_context([m EXCEPT !.c.tool_result = tool_result,
                             !.c.tool = Null,
                             !.h.tool_done = @ + 1,
                             !.h.last_tool = <<tool_result.content>>])

\* The tool call has returned `tool_result`.
after_tool(m, tool_result) ==
    LET m1 == [m EXCEPT !.c.tool_result = tool_result,
                        !.c.tool = Null,
                        !.h.tool_done = @ + 1,
                        !.h.last_tool = <<tool_result.content>>]
    IN  IF m.ag.config.trace_enabled
        THEN LET m2 == _store_trace(m1, <<"tool_execution", m.c.tool_name>>,
                                    tool_result, "store_tool")
             IN  IF m2.c.pc = "store_tool" THEN m2 ELSE update_context(m2)
        ELSE update_context(m1)

\* after_store that stores the trace once more instead of going on.
after_store_again(m) ==
    [m EXCEPT !.c.pc = IF @ = "store_llm" THEN "store_tool" ELSE "store_llm"]

\* memory.store has returned.
after_store(m) ==
    LET m1 == [m EXCEPT !.c.pending = <<>>]
    IN  IF m.c.pc = "store_llm" THEN parse_action(m1) ELSE update_context(m1)

\* ------------------------------------------------------------------------
\* The steps

\* The start of execute: normalise the input, initialise, enter the loop.
start(m, input_data, context) ==
    loop_head([m EXCEPT !.c.input_data = IF "str" \in DOMAIN input_data
                                         THEN BaseInput("text", input_data.str)
                                         ELSE input_data,
                        !.ag.state = "thinking",
                        !.ag._iteration = 0,
                        !.c.context = IF context = Null \/ context = EmptyDict
                                      THEN EmptyDict ELSE context,
                        !.h.supplied = IF context = Null THEN EmptyDict
                                       ELSE context])

\* execute(input_data, context), up to its first await.
execute(p, input_data, context) ==
    /\ call[p].pc = "idle"
    /\ Suspend(p, start(Resume(p), input_data, context))
    /\ UNCHANGED <<config, tools, memory, _session_id, lastOp, twin>>

\* llm.generate returns.
llm_returns(p, response) ==
    /\ call[p].pc = "llm"
    /\ Suspend(p, after_llm(Resume(p), response))
    /\ UNCHANGED <<config, tools, memory, _session_id, lastOp, twin>>

\* tool.execute returns.
tool_returns(p, tool_result) ==
    /\ call[p].pc = "tool"
    /\ Suspend(p, after_tool(Resume(p), tool_result))
    /\ UNCHANGED <<config, tools, memory, _session_id, lastOp, twin>>

\* memory.store returns: the trace is in the store under its key.
store_returns(p) ==
    /\ call[p].pc \in {"store_llm", "store_tool"}
    /\ memory' = [memory EXCEPT !.data =
                     (call[p].pending[1] :> call[p].pending[2]) @@ @]
    /\ Suspend(p, after_store(Resume(p)))
    /\ UNCHANGED <<config, tools, _session_id, lastOp, twin>>

\* The awaited collaborator raises e: the except clause runs.
await_raises(p, e) ==
    LET m == Resume(p)
    IN  Suspend(p, except_handler(
            [m EXCEPT !.c.tool = Null,
                      !.h.thrown = e,
                      !.h.failed = call[p].pc,
                      !.h.catalog = {},
                      !.h.llm_done = IF call[p].pc = "llm" THEN @ + 1 ELSE @,
                      !.h.tool_done = IF call[p].pc = "tool" THEN @ + 1 ELSE @],
            e))

\* llm.generate raises e.
llm_raises(p, e) ==
    /\ call[p].pc = "llm"
    /\ await_raises(p, e)
    /\ UNCHANGED <<config, tools, memory, _session_id, lastOp, twin>>

\* tool.execute raises e.
tool_raises(p, e) ==
    /\ call[p].pc = "tool"
    /\ await_raises(p, e)
    /\ UNCHANGED <<config, tools, memory, _session_id, lastOp, twin>>

\* memory.store raises e.
store_raises(p, e) ==
    /\ call[p].pc \in {"store_llm", "store_tool"}
    /\ await_raises(p, e)
    /\ UNCHANGED <<config, tools, memory, _session_id, lastOp, twin>>

\* add_tool without the duplicate test: the new tool replaces the old one.
add_tool_overwrite(tool) ==
    /\ tools' = (tool.name :> tool) @@ tools
    /\ lastOp' = [op |-> "add_tool", arg |-> tool, raised |-> ""]
    /\ UNCHANGED <<config, memory, state, _session_id, _iteration, _traces,
                   call, hist, twin>>

\* add_tool(tool)
add_tool(tool) ==
    /\ IF tool.name \in DOMAIN tools
       THEN /\ lastOp' = [op |-> "add_tool", arg |-> tool,
                          raised |-> "ValueError: Tool already exists"]
            /\ UNCHANGED tools
       ELSE /\ tools' = (tool.name :> tool) @@ tools
            /\ lastOp' = [op |-> "add_tool", arg |-> tool, raised |-> ""]
    /\ UNCHANGED <<config, memory, state, _session_id, _iteration, _traces,
                   call, hist, twin>>

\* remove_tool without the membership test: del raises on an absent name.
remove_tool_unchecked(tool_name) ==
    /\ IF tool_name \in DOMAIN tools
       THEN /\ tools' = [n \in DOMAIN tools \ {tool_name} |-> tools[n]]
            /\ lastOp' = [op |-> "remove_tool", arg |-> [name |-> tool_name],
                          raised |-> ""]
       ELSE /\ UNCHANGED tools
            /\ lastOp' = [op |-> "remove_tool", arg |-> [name |-> tool_name],
                          raised |-> "KeyError"]
    /\ UNCHANGED <<config, memory, state, _session_id, _iteration, _traces,
                   call, hist, twin>>

\* remove_tool(tool_name)
remove_tool(tool_name) ==
    /\ IF tool_name \in DOMAIN tools
       THEN tools' = [n \in DOMAIN tools \ {tool_name} |-> tools[n]]
       ELSE UNCHANGED tools
    /\ lastOp' = [op |-> "remove_tool", arg |-> [name |-> tool_name], raised |-> ""]
    /\ UNCHANGED <<config, memory, state, _session_id, _iteration, _traces,
                   call, hist, twin>>

\* The traces property: a copy of the log, the same traces in the same
\* order.
traces == _traces

\* Whether execute call p is between its start and its end.
Running(p) == call[p].pc \notin {"idle", "returned", "raised"}
Ended(p) == call[p].pc \in {"returned", "raised"}

\* One execute call on the agent, with the registry changing under it.
Next ==
    \/ \E a \in ExecuteArgs : execute(1, a[1], a[2])
    \/ \E p \in Calls, r \in LLMOutputs : llm_returns(p, r)
    \/ \E p \in Calls, r \in ToolOutputs : tool_returns(p, r)
    \/ \E p \in Calls : store_returns(p)
    \/ \E p \in Calls, e \in Exceptions : llm_raises(p, e)
    \/ \E p \in Calls, e \in Exceptions : tool_raises(p, e)
    \/ \E p \in Calls, e \in Exceptions : store_raises(p, e)
    \/ \E t \in ToolObjs : add_tool(t)
    \/ \E n \in ToolNames : remove_tool(n)

Spec == Init /\ [][Next]_vars

\* ------------------------------------------------------------------------
\* Several execute calls on one agent.  The agent is constructed with both
\* tools; the model answers with a final answer, a tool request or text.

\* Largest max_iterations of the agents that serve several calls.
MaxPasses == 2

SharedOutputs ==
    {BaseOutput("json", ("final_answer" :> "ok"), LLMMetadata),
     BaseOutput("json", ("tool" :> "echo") @@ ("input" :> "X"), LLMMetadata),
     BaseOutput("text", "thought", EmptyDict)}

InitShared ==
    /\ Init
    /\ config.max_iterations \in 1 .. MaxPasses
    /\ DOMAIN tools = ToolNames

\* Call p starts once the calls before it have ended: one call at a time.
execute_alone(p, input_data, context) ==
    /\ \A q \in Calls : q < p => Ended(q)
    /\ execute(p, input_data, context)

\* Call p starts once the calls before it have started: the event loop runs
\* it while they are suspended at an await, or after they ended.
execute_concurrent(p, input_data, context) ==
    /\ \A q \in Calls : q < p => call[q].pc # "idle"
    /\ execute(p, input_data, context)

\* What the awaits of the running calls do.
NextAwait ==
    \/ \E p \in Calls, r \in SharedOutputs : llm_returns(p, r)
    \/ \E p \in Calls : tool_returns(p, BaseOutput("text", "r1", EmptyDict))
    \/ \E p \in Calls : store_returns(p)

\* Execute calls one after the other.
NextSeq ==
    \/ \E p \in Calls : execute_alone(p, [str |-> "q"], Null)
    \/ NextAwait

SpecSeq == InitShared /\ [][NextSeq]_vars

\* Execute calls that overlap.
NextConc ==
    \/ \E p \in Calls : execute_concurrent(p, [str |-> "q"], Null)
    \/ NextAwait

SpecConc == InitShared /\ [][NextConc]_vars

\* ------------------------------------------------------------------------
\* Two agents that differ in trace_enabled only, given the same call, the
\* same answers of the model and of the tools, and the same registry.  The
\* first agent traces (its memory, when attached, never fails); the second
\* one, twin, does not.

InitTwin ==
    /\ InitAgent
    /\ config.trace_enabled
    /\ config.max_iterations <= MaxPasses
    /\ twin = [Resume(1) EXCEPT !.ag.config.trace_enabled = FALSE]

\* Both agents are at the same await of the model or of a tool.
BothAt(pc) == call[1].pc = pc /\ twin.c.pc = pc

twin_execute(input_data, context) ==
    /\ BothAt("idle")
    /\ Suspend(1, start(Resume(1), input_data, context))
    /\ twin' = start(twin, input_data, context)
    /\ UNCHANGED <<config, tools, memory, _session_id, lastOp>>

twin_llm_returns(response) ==
    /\ BothAt("llm")
    /\ Suspend(1, after_llm(Resume(1), response))
    /\ twin' = after_llm(twin, response)
    /\ UNCHANGED <<config, tools, memory, _session_id, lastOp>>

twin_tool_returns(tool_result) ==
    /\ BothAt("tool")
    /\ Suspend(1, after_tool(Resume(1), tool_result))
    /\ twin' = after_tool(twin, tool_result)
    /\ UNCHANGED <<config, tools, memory, _session_id, lastOp>>

\* The model or the tool both agents await raises e.
twin_await_raises(e) ==
    /\ BothAt("llm") \/ BothAt("tool")
    /\ await_raises(1, e)
    /\ twin' = except_handler(
            [twin EXCEPT !.c.tool = Null,
                         !.h.thrown = e,
                         !.h.failed = twin.c.pc,
                         !.h.catalog = {},
                         !.h.llm_done = IF twin.c.pc = "llm" THEN @ + 1 ELSE @,
                         !.h.tool_done = IF twin.c.pc = "tool" THEN @ + 1 ELSE @],
            e)
    /\ UNCHANGED <<config, tools, memory, _session_id, lastOp>>

\* The tracing agent's memory.store returns; the twin has nothing to await.
twin_store_returns ==
    /\ twin # Null
    /\ store_returns(1)

\* The registry changes between two steps of the pair.
twin_registry ==
    /\ twin # Null
    /\ call[1].pc \notin {"store_llm", "store_tool"}
    /\ \/ \E t \in ToolObjs : add_tool(t)
       \/ \E n \in ToolNames : remove_tool(n)

NextTwin ==
    \/ \E a \in ExecuteArgs : twin_execute(a[1], a[2])
    \/ \E r \in LLMOutputs : twin_llm_returns(r)
    \/ \E r \in ToolOutputs : twin_tool_returns(r)
    \/ \E e \in Exceptions : twin_await_raises(e)
    \/ twin_store_returns
    \/ twin_registry

SpecTwin == InitTwin /\ [][NextTwin]_vars

\* ------------------------------------------------------------------------
\* One execute call, on a registry that stays as it was constructed, whose
\* awaited model, tool and memory calls all complete.

\* The call execute call p awaits completes: it returns or it raises.
Completes(p) ==
    \/ \E r \in LLMOutputs : llm_returns(p, r)
    \/ \E r \in ToolOutputs : tool_returns(p, r)
    \/ store_returns(p)
    \/ \E e \in Exceptions : llm_raises(p, e)
    \/ \E e \in Exceptions : tool_raises(p, e)
    \/ \E e \in Exceptions : store_raises(p, e)

NextLive ==
    \/ \E a \in ExecuteArgs : execute(1, a[1], a[2])
    \/ Completes(1)

SpecLive == Init /\ [][NextLive]_vars /\ WF_vars(Completes(1))

\* ------------------------------------------------------------------------
\* Properties

\* An action that is a Json map holding key k.
HasKey(action, k) == action.type = "json" /\ k \in DOMAIN action.content

\* No collaborator (model, tool, memory) raised during call p.
NoFailure(p) == hist[p].thrown = ""

\* C1: with max_iterations = N >= 1 an execute call makes at most N model
\* calls; when every action of the model holds neither final_answer nor tool
\* (and no collaborator raises), the call ends after exactly N model calls
\* by returning the last action, not by raising.
C1_IterationBound ==
    \A p \in Calls :
        config.max_iterations >= 1 =>
            /\ hist[p].llm_calls <= config.max_iterations
            /\ (Ended(p) /\ hist[p].plain /\ NoFailure(p)) =>
                   /\ hist[p].llm_calls = config.max_iterations
                   /\ call[p].pc = "returned"
                   /\ call[p].raised = ""
                   /\ call[p].result = hist[p].last

\* A call that ran out of passes on actions with neither key and returned.
C1_Witness ==
    /\ config.max_iterations >= 2
    /\ call[1].pc = "returned"
    /\ hist[1].plain
    /\ hist[1].llm_calls = config.max_iterations
    /\ call[1].result = hist[1].last

\* C2: when the first action of the model in an execute call is a Json map
\* holding final_answer, the call makes exactly one model call and no tool
\* call, whatever the registry and max_iterations >= 1.
C2_FirstFinalAnswer ==
    \A p \in Calls :
        HasKey(hist[p].first, "final_answer") =>
            /\ hist[p].llm_calls = 1
            /\ hist[p].tool_calls = 0

\* A call that returned on a first final answer, with passes and tools left.
C2_Witness ==
    /\ config.max_iterations >= 2
    /\ DOMAIN tools = ToolNames
    /\ HasKey(hist[1].first, "final_answer")
    /\ HasKey(hist[1].first, "tool")
    /\ call[1].pc = "returned"


\* The step in which call p parses the action the model returned: the model
\* call returns and no memory.store is awaited, or that memory.store returns.
ParseStep(p) ==
    /\ call'[p] # call[p]
    /\ hist'[p].thrown = ""
    /\ \/ call[p].pc = "llm" /\ call'[p].pc # "store_llm"
       \/ call[p].pc = "store_llm"

\* The traces a step appends to the log.
Appended == SubSeq(_traces', Len(_traces) + 1, Len(_traces'))

\* C3: when the action asks for a tool whose name is not a key of the
\* registry, execute raises the tool-not-found ValueError in that same pass:
\* no model call and no tool call is started, the state is Error, and no
\* tool_execution trace is appended.
C3_ToolNotFound ==
    [][\A p \in Calls :
          (/\ ParseStep(p)
           /\ HasKey(call'[p].action, "tool")
           /\ ~HasKey(call'[p].action, "final_answer")
           /\ call'[p].action.content["tool"] \notin DOMAIN tools)
          => /\ call'[p].pc = "raised"
             /\ call'[p].raised = "ValueError: Tool not found"
             /\ call'[p].result = Null
             /\ state' = "error"
             /\ hist'[p].llm_calls = hist[p].llm_calls
             /\ hist'[p].tool_calls = hist[p].tool_calls
             /\ \A i \in 1 .. Len(Appended) :
                    Appended[i].action[1] # "tool_execution"]_vars

\* A traced call that failed on an unregistered tool in its second pass.
C3_Witness ==
    /\ call[1].pc = "raised"
    /\ call[1].raised = "ValueError: Tool not found"
    /\ call[1].tool_name \notin DOMAIN tools
    /\ hist[1].llm_calls = 2
    /\ config.max_iterations > 2
    /\ config.trace_enabled
    /\ state = "error"

\* A step of add_tool or remove_tool.
RegistryStep == lastOp' # lastOp \/ tools' # tools

\* C4: add_tool of a tool whose name is a key of the registry raises the
\* already-exists ValueError and leaves the registry as it was: the same
\* names, each mapped to the same tool.
C4_DuplicateAdd ==
    [][(/\ RegistryStep
        /\ lastOp'.op = "add_tool"
        /\ lastOp'.arg.name \in DOMAIN tools)
       => /\ lastOp'.raised = "ValueError: Tool already exists"
          /\ DOMAIN tools' = DOMAIN tools
          /\ \A n \in DOMAIN tools : tools'[n] = tools[n]]_vars

\* An add of another tool under a registered name was rejected.
C4_Witness ==
    /\ lastOp.op = "add_tool"
    /\ lastOp.raised = "ValueError: Tool already exists"
    /\ lastOp.arg.name \in DOMAIN tools
    /\ tools[lastOp.arg.name] # lastOp.arg
    /\ DOMAIN tools = ToolNames

\* C5: remove_tool never raises; with an absent name it leaves the registry
\* as it was, with a present name it removes that entry and no other.
C5_Remove ==
    [][(RegistryStep /\ lastOp'.op = "remove_tool")
       => /\ lastOp'.raised = ""
          /\ DOMAIN tools' = DOMAIN tools \ {lastOp'.arg.name}
          /\ \A n \in DOMAIN tools' : tools'[n] = tools[n]
          /\ lastOp'.arg.name \notin DOMAIN tools => tools' = tools]_vars

\* A remove of one name, the other entry still there.
C5_Witness ==
    /\ lastOp.op = "remove_tool"
    /\ lastOp.raised = ""
    /\ lastOp.arg.name = "echo"
    /\ DOMAIN tools = {"wiki"}


\* C6: when the loop ends because iteration reached max_iterations = N >= 1
\* with no final answer (the N-th pass went through: nothing raised in it),
\* execute returns the action of the N-th model call, does not raise, and
\* the state is Completed; so also when each of the N passes called a tool.
C6_LastActionFallback ==
    \A p \in Calls :
        (/\ Ended(p)
         /\ config.max_iterations >= 1
         /\ hist[p].llm_calls = config.max_iterations
         /\ ~HasKey(hist[p].last, "final_answer")
         /\ NoFailure(p)
         /\ call[p].raised # "ValueError: Tool not found")
        => /\ call[p].pc = "returned"
           /\ call[p].raised = ""
           /\ call[p].result = hist[p].last
           /\ state = "completed"

\* N >= 2 passes, a tool call in each, and the last tool request returned.
C6_Witness ==
    /\ config.max_iterations >= 2
    /\ call[1].pc = "returned"
    /\ hist[1].tool_calls = config.max_iterations
    /\ hist[1].llm_calls = config.max_iterations
    /\ HasKey(call[1].result, "tool")
    /\ state = "completed"

\* C7: when the model's action is a Json map holding final_answer (and no
\* collaborator raises), execute returns the envelope of kind Json whose
\* content is the value under final_answer and whose metadata is the
\* action's metadata, and the state is Completed.
C7_FinalAnswerEnvelope ==
    \A p \in Calls :
        (Ended(p) /\ NoFailure(p) /\ HasKey(hist[p].last, "final_answer"))
        => /\ call[p].pc = "returned"
           /\ call[p].result = [type |-> "json",
                                content |-> hist[p].last.content["final_answer"],
                                metadata |-> hist[p].last.metadata]
           /\ state = "completed"

\* A final answer with metadata, returned in a later pass than the first.
C7_Witness ==
    /\ call[1].pc = "returned"
    /\ HasKey(hist[1].last, "final_answer")
    /\ hist[1].last.metadata # EmptyDict
    /\ call[1].result.metadata = hist[1].last.metadata
    /\ hist[1].llm_calls >= 2
    /\ state = "completed"

\* The number of traces in the log with label l.
Labelled(l) == Cardinality({i \in 1 .. Len(_traces) : _traces[i].action[1] = l})

\* C8: an execute call that returns with tracing enabled has recorded one
\* llm_generation trace per model call and one tool_execution trace per tool
\* call, and nothing else: as many traces as model calls plus tool calls.
C8_TraceCount ==
    \A p \in Calls :
        (call[p].pc = "returned" /\ config.trace_enabled)
        => /\ hist[p].traced = hist[p].llm_calls + hist[p].tool_calls
           /\ Len(_traces) = hist[p].traced
           /\ Labelled("llm_generation") = hist[p].llm_calls
           /\ Labelled("tool_execution") = hist[p].tool_calls

\* Two passes with a tool call, then a final answer: five traces.
C8_Witness ==
    /\ config.trace_enabled
    /\ call[1].pc = "returned"
    /\ HasKey(hist[1].last, "final_answer")
    /\ hist[1].llm_calls = 3
    /\ hist[1].tool_calls = 2
    /\ Len(_traces) = 5

\* C9: with max_iterations <= 0 the loop makes no pass and no model call,
\* the state becomes Error and execute fails with the max-iterations
\* RuntimeError.
C9_MaxIterationsExceeded ==
    \A p \in Calls :
        (Ended(p) /\ config.max_iterations <= 0)
        => /\ hist[p].llm_calls = 0
           /\ state = "error"
           /\ call[p].pc = "raised"
           /\ call[p].raised = "RuntimeError: Max iterations reached"

\* C10: when the model call or the tool call raises, execute ends there:
\* the state is Error, the caller gets the exception the collaborator
\* raised and no envelope, and the call makes no later model or tool call.
C10_FailurePropagates ==
    [][\A p \in Calls :
          /\ (/\ hist[p].thrown = ""
              /\ hist'[p].thrown # ""
              /\ hist'[p].failed \in {"llm", "tool"})
             => /\ call'[p].pc = "raised"
                /\ call'[p].raised = hist'[p].thrown
                /\ call'[p].result = Null
                /\ state' = "error"
                /\ hist'[p].llm_calls = hist[p].llm_calls
                /\ hist'[p].tool_calls = hist[p].tool_calls
          /\ (hist[p].failed \in {"llm", "tool"})
             => /\ call'[p] = call[p]
                /\ hist'[p] = hist[p]]_vars

\* A tool call that raised in the second of more than two passes.
C10_Witness ==
    /\ config.max_iterations > 2
    /\ call[1].pc = "raised"
    /\ hist[1].failed = "tool"
    /\ hist[1].llm_calls = 2
    /\ call[1].raised = hist[1].thrown
    /\ state = "error"


\* C11: a memory.store that raises while a trace is mirrored does not fail
\* the loop: the execute call goes on, it does not end by raising there.
C11_MirrorFailureIgnored ==
    \A p \in Calls :
        hist[p].failed \in {"store_llm", "store_tool"}
        => /\ call[p].pc # "raised"
           /\ state # "error"


\* C12: execute calls that overlap on one agent are independent sessions:
\* the iteration counter a running call reads (in its loop test, on its
\* traces) counts that call's own passes; no other call resets or advances it.
C12_OwnIterationCounter ==
    \A p \in Calls :
        Running(p) => _iteration = hist[p].llm_calls

\* C13: also when execute calls overlap, each call makes at most
\* max_iterations model calls.
C13_HardCapPerCall ==
    \A p \in Calls :
        hist[p].llm_calls <= config.max_iterations

\* What an execute call does, apart from tracing: the agent's state and
\* iteration, the call's inputs, context, action, tool call, result or
\* exception, and how many model and tool calls it has made with what
\* answers.
Semantics(m) ==
    [state |-> m.ag.state, _iteration |-> m.ag._iteration,
     c |-> [m.c EXCEPT !.pending = <<>>],
     h |-> [m.h EXCEPT !.traced = 0, !.sids = {}]]

\* The tracing agent once the memory.store it awaits, if any, has returned.
Stored(m) == IF m.c.pc \in {"store_llm", "store_tool"} THEN after_store(m) ELSE m

\* C14: tracing does not alter what execute does.  Given the same call, the
\* same model and tool answers and the same registry, the agent with
\* trace_enabled (memory absent or never failing) and the agent without it
\* make the same model and tool calls, update the context alike and end
\* with the same result and state; the agent without tracing appends no
\* trace and never calls memory.store.
C14_TracingTransparent ==
    /\ Semantics(Stored(Resume(1))) = Semantics(twin)
    /\ twin.ag._traces = <<>>
    /\ twin.h.traced = 0
    /\ twin.c.pending = <<>>
    /\ twin.c.pc \notin {"store_llm", "store_tool"}

\* Both agents returned a final answer after a tool call; the tracing one
\* stored its three traces in memory.
C14_Witness ==
    /\ call[1].pc = "returned"
    /\ twin.c.pc = "returned"
    /\ hist[1].tool_calls = 1
    /\ "last_tool_result" \in DOMAIN twin.c.context
    /\ Len(_traces) = 3
    /\ memory.data # EmptyDict
    /\ twin.c.result = call[1].result
    /\ HasKey(hist[1].last, "final_answer")
\* C15: a tool listed in the catalog from which the model query of a pass
\* was built is still resolvable when that pass dispatches the model's
\* request for it, whatever add_tool / remove_tool did while the model call
\* was awaited: the request starts the tool call and raises no
\* tool-not-found error.
C15_CatalogSnapshot ==
    [][\A p \in Calls :
          (/\ ParseStep(p)
           /\ HasKey(call'[p].action, "tool")
           /\ ~HasKey(call'[p].action, "final_answer")
           /\ call'[p].action.content["tool"] \in hist[p].catalog)
          => /\ call'[p].pc = "tool"
             /\ call'[p].raised = ""]_vars
\* C16: every execute call has a session_id of its own: the traces of one
\* call all carry the same session_id, and traces recorded by two different
\* calls on the same agent carry different ones.
C16_SessionPerCall ==
    \A p, q \in Calls :
        /\ Cardinality(hist[p].sids) <= 1
        /\ p # q => hist[p].sids \cap hist[q].sids = {}

\* C17: the trace log is per session: the traces property holds the traces
\* recorded by the most recent execute call and none of an earlier call.
C17_TracesOfCurrentCall ==
    \A p \in Calls :
        (call[p].pc # "idle" /\ \A q \in Calls : q > p => call[q].pc = "idle")
            => Len(_traces) = hist[p].traced
\* The state an agent shows at each point of its execute call.
StateAt ==
    /\ state \in AgentState \ {"waiting"}
    /\ call[1].pc = "idle" => state = "idle"
    /\ call[1].pc \in {"llm", "store_llm"} => state = "thinking"
    /\ call[1].pc \in {"tool", "store_tool"} => state = "executing"
    /\ call[1].pc = "returned" => state = "completed"
    /\ call[1].pc = "raised" => state = "error"

\* The changes of state between two points at which the agent can be
\* observed (an await, the return, the raise).
StateStep ==
    state' # state =>
        \/ state = "idle" /\ state' \in {"thinking", "error"}
        \/ state = "thinking" /\ state' \in {"executing", "completed", "error"}
        \/ state = "executing" /\ state' \in {"thinking", "completed", "error"}

\* C18: the agent state follows Idle -> Thinking -> {Executing <-> Thinking}
\* -> Completed | Error: Idle before execute, Thinking while a model call is
\* awaited, Executing while a tool call is awaited, Executing entered only
\* from Thinking, Waiting never, Completed when execute has returned and
\* Error when it has raised; nothing leaves Completed or Error.
C18_StateMachine == []StateAt /\ [][StateStep]_vars

\* The second tool call of an execute call is awaited: the agent went
\* Thinking, Executing, Thinking and is Executing again.
C18_Witness ==
    /\ call[1].pc = "tool"
    /\ state = "executing"
    /\ hist[1].tool_calls = 2
    /\ hist[1].llm_calls = 2
\* C19: once a tool call of an execute call has succeeded, the context the
\* next model query is built from holds that tool's output content under
\* "last_tool_result", and whenever the call awaits the model or a tool, or
\* has ended, the key holds the output of the call's most recent successful
\* tool call.  (Between the return of tool.execute and the assignment the
\* call may await the store of the tool's trace; the assignment follows.)
C19_LastToolResult ==
    \A p \in Calls :
        (/\ hist[p].last_tool # <<>>
         /\ call[p].pc # "store_tool"
         /\ hist[p].failed # "store_tool")
        => /\ "last_tool_result" \in DOMAIN call[p].context
           /\ call[p].context["last_tool_result"] = hist[p].last_tool[1]

\* The third model query is built after two tool calls that answered r1 in
\* one and r2 in the other: the context holds the later answer.
C19_Witness ==
    /\ call[1].pc = "llm"
    /\ hist[1].llm_calls = 3
    /\ hist[1].tool_done = 2
    /\ hist[1].last_tool = <<"r2">>
    /\ call[1].context["last_tool_result"] = "r2"
    /\ \E i \in 1 .. Len(_traces) :
           /\ _traces[i].action[1] = "tool_execution"
           /\ _traces[i].output.content = "r1"

\* The model and tool calls of an execute call, started and completed.
Sequential(p) ==
    LET h == hist[p]
    IN  /\ h.tool_calls <= h.llm_calls
        /\ h.llm_done <= h.llm_calls
        /\ h.tool_done <= h.tool_calls
        /\ (h.llm_calls - h.llm_done) + (h.tool_calls - h.tool_done) <= 1
        /\ call[p].pc = "llm" <=> h.llm_calls = h.llm_done + 1
        /\ call[p].pc = "tool" <=> h.tool_calls = h.tool_done + 1
        /\ Running(p) => h.llm_calls = _iteration

\* A step starts at most one call: a model call at the top of a new pass,
\* or the tool call of the pass whose model call has completed.
SequentialStep(p) ==
    LET h == hist[p]
        g == hist'[p]
    IN  /\ g.llm_calls # h.llm_calls =>
               /\ g.llm_calls = h.llm_calls + 1
               /\ g.tool_calls = h.tool_calls
               /\ _iteration' = g.llm_calls
        /\ g.tool_calls # h.tool_calls =>
               /\ g.tool_calls = h.tool_calls + 1
               /\ g.llm_calls = h.llm_calls
               /\ call[p].pc \in {"llm", "store_llm"}
               /\ g.llm_done = g.llm_calls

\* C20: the steps of an execute call are strictly sequential: every pass
\* makes exactly one model call and at most one tool call, the tool call of
\* a pass starts only after the model call of that pass has completed, the
\* model call of the next pass starts only after the tool call has
\* completed, and the tool calls never outnumber the model calls.
C20_StrictSequence ==
    /\ [](\A p \in Calls : Sequential(p))
    /\ [][\A p \in Calls : SequentialStep(p)]_vars

\* The second pass awaits its tool call: two model calls and one tool call
\* have completed.
C20_Witness ==
    /\ call[1].pc = "tool"
    /\ hist[1].llm_calls = 2
    /\ hist[1].llm_done = 2
    /\ hist[1].tool_calls = 2
    /\ hist[1].tool_done = 1
\* C21: in an execute call run on its own the iteration counter starts at
\* 0, is incremented by one per pass before the model call, stays within
\* 0 .. max_iterations, and equals the number of model calls the call has
\* started.
C21_IterationCounter ==
    /\ config.max_iterations >= 0 => _iteration \in 0 .. config.max_iterations
    /\ call[1].pc = "idle" => _iteration = 0
    /\ _iteration = hist[1].llm_calls
    /\ _iteration = hist[1].llm_done + (IF call[1].pc = "llm" THEN 1 ELSE 0)

\* The last pass the bound allows awaits its model call.
C21_Witness ==
    /\ call[1].pc = "llm"
    /\ config.max_iterations >= 2
    /\ _iteration = config.max_iterations
    /\ hist[1].llm_done = _iteration - 1
\* The log before a step is the head of the log after it.
LogExtended ==
    /\ Len(traces') >= Len(traces)
    /\ SubSeq(traces', 1, Len(traces)) = traces

\* The traces of one execute call are in the order of its steps.
LogOrdered ==
    \A j \in 1 .. Len(traces) :
        /\ \A i \in 1 .. j - 1 :
               traces[i].metadata.iteration <= traces[j].metadata.iteration
        /\ traces[j].action[1] = "tool_execution" =>
               \E i \in 1 .. j - 1 :
                   /\ traces[i].action = <<"llm_generation">>
                   /\ traces[i].metadata.iteration = traces[j].metadata.iteration

\* C22: the trace log is append-only: every operation leaves the log as it
\* is or appends at its end, no trace in it is removed, reordered or
\* modified; within one execute call the llm_generation trace of a pass
\* precedes the pass's tool_execution trace and the iteration numbers in
\* the log never decrease.
C22_AppendOnly == []LogOrdered /\ [][LogExtended]_vars

\* A log of two passes: model, tool, model.
C22_Witness ==
    /\ Len(traces) = 3
    /\ traces[1].action = <<"llm_generation">>
    /\ traces[2].action[1] = "tool_execution"
    /\ traces[3].action = <<"llm_generation">>
    /\ traces[2].metadata.iteration = 1
    /\ traces[3].metadata.iteration = 2
\* The memory.store call an execute call awaits, if any: made for the trace
\* just recorded, under the key of the session and the current iteration.
StoreCall(p) ==
    IF call[p].pc \in {"store_llm", "store_tool"}
    THEN /\ memory.attached
         /\ config.trace_enabled
         /\ hist[p].traced >= 1
         /\ call[p].pending =
                <<trace_key(_session_id, _iteration), traces[Len(traces)]>>
         /\ traces[Len(traces)].metadata.iteration = _iteration
    ELSE call[p].pending # <<>> => hist[p].failed \in {"store_llm", "store_tool"}

\* A step that records a trace records one, and calls memory.store for it
\* when a memory is attached; no other step calls memory.store; memory
\* changes only when a store completes, by the entry stored.
StoreStep(p) ==
    /\ Len(traces') \in {Len(traces), Len(traces) + 1}
    /\ (Len(traces') = Len(traces) + 1 /\ hist'[p] # hist[p]) =>
           (memory.attached <=> call'[p].pc \in {"store_llm", "store_tool"})
    /\ (call'[p].pending # <<>> /\ call'[p].pending # call[p].pending) =>
           Len(traces') = Len(traces) + 1
    /\ memory' # memory =>
           /\ \E q \in Calls :
                  /\ call[q].pc \in {"store_llm", "store_tool"}
                  /\ memory'.data =
                         (call[q].pending[1] :> call[q].pending[2]) @@ memory.data
           /\ DOMAIN memory.data \subseteq DOMAIN memory'.data
           /\ memory'.attached = memory.attached

\* C23: the loop touches memory only through store and only while
\* recording a trace: every store call is keyed by the current session id
\* and the current iteration, one store call is made per recorded trace when
\* a memory is attached, and nothing is ever retrieved, deleted or cleared.
C23_StoreOnly ==
    /\ [](StoreCall(1) /\ (~memory.attached => memory.data = EmptyDict))
    /\ [][StoreStep(1)]_vars

\* The store of the second pass's tool trace is awaited, the first pass's
\* traces being in memory.
C23_Witness ==
    /\ call[1].pc = "store_tool"
    /\ call[1].pending[1] = trace_key(_session_id, 2)
    /\ _iteration = 2
    /\ trace_key(_session_id, 1) \in DOMAIN memory.data
    /\ Len(traces) = 4
\* The llm_generation traces among the first j traces of the log.
Generations(j) ==
    Cardinality({i \in 1 .. j : traces[i].action = <<"llm_generation">>})

\* C24: every recorded trace carries metadata {iteration, state} of the
\* step it records: an llm_generation trace has state Thinking, a
\* tool_execution:<name> trace has state Executing and the name the model
\* asked for in that pass, and the iteration is the 1-based number of the
\* pass, between 1 and max_iterations.
C24_TraceMetadata ==
    \A j \in 1 .. Len(traces) :
        LET t == traces[j]
        IN  /\ DOMAIN t.metadata = {"iteration", "state"}
            /\ t.metadata.iteration \in 1 .. config.max_iterations
            /\ t.metadata.iteration = Generations(j)
            /\ t.action[1] \in {"llm_generation", "tool_execution"}
            /\ t.action = <<"llm_generation">> => t.metadata.state = "thinking"
            /\ t.action[1] = "tool_execution" =>
                   /\ t.metadata.state = "executing"
                   /\ j > 1
                   /\ traces[j - 1].action = <<"llm_generation">>
                   /\ HasKey(traces[j - 1].output, "tool")
                   /\ t.action = <<"tool_execution",
                                   traces[j - 1].output.content["tool"]>>

\* The second pass recorded the call of the tool the model asked for.
C24_Witness ==
    /\ Len(traces) >= 4
    /\ traces[4].action = <<"tool_execution", "wiki">>
    /\ traces[4].metadata = [iteration |-> 2, state |-> "executing"]
    /\ traces[3].metadata = [iteration |-> 2, state |-> "thinking"]
\* C25: final_answer takes precedence over tool: on a Json action holding
\* both keys execute returns the final answer in that pass; it makes no tool
\* call, is never Executing and does not fail with the tool-not-found
\* error, whether or not the named tool is registered.
C25_FinalAnswerFirst ==
    \A p \in Calls :
        (/\ hist[p].last # Null
         /\ HasKey(hist[p].last, "final_answer")
         /\ HasKey(hist[p].last, "tool"))
        => /\ call[p].pc \in {"store_llm", "returned", "raised"}
           /\ call[p].pc = "raised" => hist[p].failed = "store_llm"
           /\ call[p].raised # "ValueError: Tool not found"
           /\ state # "executing"
           /\ hist[p].tool_calls = hist[p].tool_done
           /\ hist[p].tool_calls < hist[p].llm_calls
           /\ call[p].pc = "returned" =>
                  /\ state = "completed"
                  /\ call[p].result.content = hist[p].last.content["final_answer"]
                  /\ Len(traces) > 0 =>
                         traces[Len(traces)].action = <<"llm_generation">>

\* The first action held both keys and named a tool that is not registered:
\* the call returned the final answer.
C25_Witness ==
    /\ call[1].pc = "returned"
    /\ hist[1].llm_calls = 1
    /\ HasKey(hist[1].last, "final_answer")
    /\ HasKey(hist[1].last, "tool")
    /\ hist[1].last.content["tool"] \notin DOMAIN tools
    /\ call[1].result.content = "both"
    /\ hist[1].tool_calls = 0
\* C26: tool lookup is by exact name against the registry as it is at the
\* lookup: once add_tool(t) has succeeded a request for t.name dispatches to
\* t; once remove_tool(name) has run a request for name fails with the
\* tool-not-found error; a request for a name that is not a key of the
\* registry dispatches to no tool at all.
C26_ExactLookup ==
    [][/\ (RegistryStep /\ lastOp'.op = "add_tool" /\ lastOp'.raised = "") =>
              /\ lastOp'.arg.name \in DOMAIN tools'
              /\ tools'[lastOp'.arg.name] = lastOp'.arg
       /\ (RegistryStep /\ lastOp'.op = "remove_tool") =>
              lastOp'.arg.name \notin DOMAIN tools'
       /\ \A p \in Calls :
              (/\ ParseStep(p)
               /\ HasKey(call'[p].action, "tool")
               /\ ~HasKey(call'[p].action, "final_answer"))
              => LET name == call'[p].action.content["tool"]
                 IN  IF name \in DOMAIN tools
                     THEN /\ call'[p].pc = "tool"
                          /\ call'[p].tool = tools[name]
                          /\ call'[p].tool.name = name
                          /\ hist'[p].tool_calls = hist[p].tool_calls + 1
                     ELSE /\ call'[p].pc = "raised"
                          /\ call'[p].raised = "ValueError: Tool not found"
                          /\ call'[p].tool = Null
                          /\ hist'[p].tool_calls = hist[p].tool_calls]_vars

\* echo was removed and another echo added during the call: the request
\* for echo is dispatched to the tool now registered under that name.
C26_Witness ==
    /\ call[1].pc = "tool"
    /\ call[1].tool_name = "echo"
    /\ call[1].tool = [name |-> "echo", version |-> "2.0.0"]
    /\ lastOp.op = "add_tool"
    /\ lastOp.arg = call[1].tool
    /\ lastOp.raised = ""
\* C27: every execute call terminates: whatever max_iterations and the
\* model's answers, if every awaited model, tool and memory call completes,
\* the call eventually returns an envelope or raises, in state Completed or
\* Error.
C27_Terminates ==
    call[1].pc # "idle" ~>
        \/ call[1].pc = "returned" /\ call[1].result # Null /\ state = "completed"
        \/ call[1].pc = "raised" /\ call[1].raised # "" /\ state = "error"

\* A call that used all its passes on tool calls and then returned.
C27_Witness ==
    /\ call[1].pc = "returned"
    /\ state = "completed"
    /\ config.max_iterations = MaxIter
    /\ hist[1].llm_done = MaxIter
    /\ hist[1].tool_done = MaxIter
\* C28: an action that is not Json, or a Json map holding neither
\* final_answer nor tool, causes no tool call, no change of the context and
\* no failure in its pass: the state stays Thinking and the loop goes on to
\* its next pass, or to the last-action fallback when the bound is reached.
C28_PlainAction ==
    [][\A p \in Calls :
          (/\ ParseStep(p)
           /\ ~HasKey(call'[p].action, "final_answer")
           /\ ~HasKey(call'[p].action, "tool"))
          => /\ hist'[p].tool_calls = hist[p].tool_calls
             /\ call'[p].context = call[p].context
             /\ call'[p].raised = ""
             /\ IF _iteration < config.max_iterations
                THEN /\ call'[p].pc = "llm"
                     /\ call'[p].final_answer = Null
                     /\ state' = "thinking"
                     /\ _iteration' = _iteration + 1
                ELSE /\ call'[p].pc = "returned"
                     /\ call'[p].result = call'[p].action
                     /\ state' = "completed"]_vars

\* The first action was plain text: the second pass awaits the model with
\* the caller's context as it was.
C28_Witness ==
    /\ call[1].pc = "llm"
    /\ hist[1].llm_calls = 2
    /\ hist[1].last.type = "text"
    /\ hist[1].tool_calls = 0
    /\ call[1].context # EmptyDict
    /\ state = "thinking"
\* C29: with tracing enabled and a memory attached, every trace of a
\* session is stored under a key of its own, so that every trace whose
\* store has completed is still in memory: none is overwritten by a later
\* one, the llm_generation and the tool_execution trace of a pass included.
C29_MirrorKeepsEveryTrace ==
    \A p \in Calls :
        (/\ memory.attached
         /\ config.trace_enabled
         /\ call[p].pc \notin {"idle", "store_llm", "store_tool"}
         /\ hist[p].failed \notin {"store_llm", "store_tool"})
        => /\ \A i \in 1 .. Len(traces) :
                  \E k \in DOMAIN memory.data : memory.data[k] = traces[i]
           /\ Cardinality(DOMAIN memory.data) = Len(traces)
\* The context the caller supplied, with v under "last_tool_result".
WithResult(p, v) == ("last_tool_result" :> v) @@ hist[p].supplied

\* C30: the only key of the context execute ever writes is
\* "last_tool_result": every other key of the caller's context keeps its
\* value throughout the call, and the context changes only by a successful
\* tool call: it is the caller's until the first one, and from then on the
\* caller's with the output of the latest one (of the one before while the
\* latest one's trace is being stored).
C30_ContextFrame ==
    \A p \in Calls :
        LET c == call[p].context
            h == hist[p]
        IN  /\ \A k \in DOMAIN h.supplied \ {"last_tool_result"} :
                   k \in DOMAIN c /\ c[k] = h.supplied[k]
            /\ DOMAIN c \subseteq DOMAIN h.supplied \cup {"last_tool_result"}
            /\ h.last_tool = <<>> => c = h.supplied
            /\ (h.last_tool # <<>> /\ call[p].pc # "store_tool"
                                  /\ h.failed # "store_tool") =>
                   c = WithResult(p, h.last_tool[1])
            /\ (h.last_tool # <<>> /\ h.tool_done = 1
                   /\ (call[p].pc = "store_tool" \/ h.failed = "store_tool")) =>
                   c = h.supplied

\* The caller's context after a tool call that succeeded and one that
\* failed: the caller's key, and the result of the one that succeeded.
C30_Witness ==
    /\ call[1].pc = "raised"
    /\ hist[1].failed = "tool"
    /\ hist[1].tool_calls = 2
    /\ hist[1].last_tool = <<"r1">>
    /\ call[1].context = ("last_tool_result" :> "r1") @@ ("user" :> "u")
\* The tool_execution traces in the log.
ToolTraces == {i \in 1 .. Len(traces) : traces[i].action[1] = "tool_execution"}

\* C31: when the execute of a registered tool fails, no tool_execution
\* trace is recorded for that call and context["last_tool_result"] keeps the
\* value it had, while the llm_generation trace of that pass, recorded
\* before the tool call, stays in the log.
C31_FailedToolCall ==
    hist[1].failed = "tool" =>
        /\ call[1].pc = "raised"
        /\ call[1].raised = hist[1].thrown
        /\ call[1].tool_name \in ToolNames
        /\ call[1].context = IF hist[1].last_tool = <<>>
                             THEN hist[1].supplied
                             ELSE WithResult(1, hist[1].last_tool[1])
        /\ config.trace_enabled =>
               /\ Cardinality(ToolTraces) = hist[1].tool_calls - 1
               /\ Len(traces) = hist[1].llm_calls + hist[1].tool_calls - 1
               /\ traces[Len(traces)].action = <<"llm_generation">>
               /\ traces[Len(traces)].metadata.iteration = _iteration
               /\ traces[Len(traces)].output = call[1].action
        /\ ~config.trace_enabled => traces = <<>>

\* The tool call of the second pass failed: the log ends with that pass's
\* llm_generation trace and the context holds the first pass's result.
C31_Witness ==
    /\ hist[1].failed = "tool"
    /\ config.trace_enabled
    /\ hist[1].llm_calls = 2
    /\ Len(traces) = 3
    /\ traces[2].action[1] = "tool_execution"
    /\ traces[3].action = <<"llm_generation">>
    /\ call[1].context["last_tool_result"] = "r2"
    /\ state = "error"
====
